---- MODULE Spec2Model ----
(***************************************************************************)
(* A model of fin-filings-rag: the chunker (ingestion/chunk.py), the index *)
(* builder (ingestion/ingest_texts.py), the index loader, retriever,       *)
(* confidence gate and synthesizer (app/rag.py), the response schemas      *)
(* (app/schemas.py) and the /ask endpoint (app/main.py).                   *)
(*                                                                         *)
(* Texts are sequences of one-character strings.  Python's 0-based,        *)
(* end-exclusive slices are kept: Slice(s, a, b) is s[a:b].                *)
(***************************************************************************)
EXTENDS Integers, Sequences, FiniteSets, TLC

VARIABLES
    ckText,      \* chunk_text: the normalized text (chunk.py:12)
    ckSize,      \* chunk_text: chunk_size
    ckOverlap,   \* chunk_text: overlap
    ckMin,       \* chunk_text: min_chunk_size
    ckStart,     \* chunk_text: start, the window start
    ckYielded,   \* chunk_text: the <<start, end>> windows yielded so far
    ckIters,     \* number of loop iterations run so far
    ckPc,        \* "call" | "loop" | "done"
    files,       \* the index directory: artifact name -> content, for those present
    bPc,         \* ingest_filings: "idle" | "save_chunks" | "save_matrix" | "save_vocab"
    bChunks,     \* ingest_filings: chunks
    bMatrix,     \* ingest_filings: tfidf_matrix.toarray()
    bVocab,      \* ingest_filings: vectorizer.vocabulary_
    bStatus,     \* how the last finished ingest_filings call ended
    engine,      \* rag.py _engine: <<>> for None, else <<the RAGEngine>>
    geOutcome,   \* how the last get_engine call ended
    qCall,       \* the last engine call: its name, query, top_k and similarities
    qResults,    \* what the retrieve of that call returned
    qReturn,     \* what synthesize / ask returned or raised
    http         \* the last response of POST /ask

ckVars == <<ckText, ckSize, ckOverlap, ckMin, ckStart, ckYielded, ckIters, ckPc>>

ixVars == <<files, bPc, bChunks, bMatrix, bVocab, bStatus, engine, geOutcome>>

qVars == <<qCall, qResults, qReturn, http>>

vars == <<ckVars, ixVars, qVars>>

-----------------------------------------------------------------------------
(* Small helpers *)

Min2(a, b) == IF a <= b THEN a ELSE b

Max2(a, b) == IF a >= b THEN a ELSE b

SetMax(S) == CHOOSE x \in S : \A y \in S : y <= x

SetMin(S) == CHOOSE x \in S : \A y \in S : x <= y

\* The elements of s at the positions in keep, in order.
RECURSIVE PickRange(_, _, _, _)
PickRange(s, keep, lo, hi) ==
    IF lo > hi THEN <<>>
    ELSE IF lo = hi THEN (IF lo \in keep THEN <<s[lo]>> ELSE <<>>)
    ELSE LET mid == (lo + hi) \div 2
         IN  PickRange(s, keep, lo, mid) \o PickRange(s, keep, mid + 1, hi)

Pick(s, keep) == PickRange(s, keep, 1, Len(s))

\* The sequences of seqs, one after another.
RECURSIVE Concat(_)
Concat(seqs) == IF seqs = <<>> THEN <<>> ELSE Head(seqs) \o Concat(Tail(seqs))

Range(s) == {s[i] : i \in 1..Len(s)}

\* s[a:b] for 0 <= a, in Python's 0-based end-exclusive indexing.
Slice(s, a, b) == SubSeq(s, a + 1, Min2(b, Len(s)))

\* n copies of the sequence unit, one after another.
Repeat(unit, n) == [i \in 1..(n * Len(unit)) |-> unit[((i - 1) % Len(unit)) + 1]]

-----------------------------------------------------------------------------
(* chunk.py *)

\* The characters the regular expression class \s matches.
Whitespace == {" ", "\n"}

\* str.strip()
Strip(s) ==
    LET idx == {i \in 1..Len(s) : s[i] \notin Whitespace}
    IN  IF idx = {} THEN <<>> ELSE SubSeq(s, SetMin(idx), SetMax(idx))

\* re.sub(r"\s+", " ", s) on a piece s of a text, after_ws telling whether the
\* character before the piece is whitespace: each run of whitespace becomes
\* one space, written where the run starts.  The piece is halved to keep the
\* evaluation shallow.
RECURSIVE CollapseRuns(_, _)
CollapseRuns(s, after_ws) ==
    IF Len(s) = 0 THEN <<>>
    ELSE IF Len(s) = 1
    THEN IF s[1] \notin Whitespace THEN s
         ELSE IF after_ws THEN <<>> ELSE <<" ">>
    ELSE LET mid == Len(s) \div 2
         IN  CollapseRuns(SubSeq(s, 1, mid), after_ws)
                \o CollapseRuns(SubSeq(s, mid + 1, Len(s)), s[mid] \in Whitespace)

\* re.sub(r"\s+", " ", text.strip())  (chunk.py:12)
NormalizeWhitespace(text) == CollapseRuns(Strip(text), FALSE)

\* The boundary patterns of chunk.py:28 in priority order; each is the
\* sequence of character classes it matches.
BoundaryPatterns == << <<{"."}, Whitespace>>, <<{"\n"}>>, <<{";"}, Whitespace>> >>

\* How far before and after the raw cut the boundary is searched (chunk.py:24-25).
BoundaryBack == 100

BoundaryFwd == 50

\* The 0-based positions p where pattern pat matches text[lo:hi] entirely.
MatchStarts(text, pat, lo, hi) ==
    {p \in lo..(hi - Len(pat)) :
        \A k \in 1..Len(pat) : text[p + k] \in pat[k]}

\* The cut of the window starting at start (chunk.py:21-33).
WindowEnd(text, start, chunk_size) ==
    LET end0         == start + chunk_size
        search_start == Max2(start + chunk_size - BoundaryBack, start)
        search_end   == Min2(start + chunk_size + BoundaryFwd, Len(text))
        found        == {n \in 1..Len(BoundaryPatterns) :
                            MatchStarts(text, BoundaryPatterns[n],
                                        search_start, search_end) # {}}
    IN  IF end0 < Len(text) /\ found # {}
        THEN LET pat == BoundaryPatterns[SetMin(found)]
             IN  SetMax(MatchStarts(text, pat, search_start, search_end)) + Len(pat)
        ELSE end0

\* The next window start (chunk.py:39-41).
NextStart(start, end, overlap) ==
    IF end - overlap <= 0 THEN end ELSE end - overlap

\* The chunk a window yields, if any (chunk.py:35-37).
WindowYields(text, start, end, min_chunk_size) ==
    Len(Strip(Slice(text, start, end))) >= min_chunk_size

\* Texts handed to chunk_text: empty, whitespace only, short, long without any
\* boundary, sentences separated by runs of whitespace, and clauses.
ChunkTexts ==
    { <<>>,
      <<" ", "\n", " ">>,
      Repeat(<<"a">>, 30),
      Repeat(<<"a">>, 200),
      Repeat(<<"a", "a", "a", ".", "\n", " ">>, 40),
      Repeat(<<"a", "b", ";", " ">>, 160) }

ChunkSizes == {0, 4, 64, 150, 512}

Overlaps == {0, 16, 64, 150}

MinChunkSizes == {0, 50}

\* Loop iterations followed per call.
MaxIters == 8

-----------------------------------------------------------------------------
(* The vectorizer: sklearn's TfidfVectorizer as ingest_texts.py:52-56 and    *)
(* rag.py:67-72 configure it (stop_words="english", ngram_range=(1, 2)).     *)
(* max_features=10000 never cuts a vocabulary of the sizes modelled.  A      *)
(* weight is the count of the term in the chunk: the inverse document        *)
(* frequency factor and the row normalisation scale a row, they move no      *)
(* cell to another row or column.                                            *)

Punctuation == {".", ";", ","}

IsWordChar(c) == c \notin Whitespace /\ c \notin Punctuation

\* str.lower() on the letters the modelled texts use.
Lower(c) == IF c = "R" THEN "r" ELSE IF c = "D" THEN "d" ELSE c

LowerText(s) == [i \in 1..Len(s) |-> Lower(s[i])]

\* The words of the english stop list that the modelled texts use.
StopWords == { <<"t", "h", "e">>, <<"a", "n", "d">> }

\* token_pattern (?u)\b\w\w+\b: the runs of two or more word characters.
Tokens(s) ==
    LET isStart(i) == IsWordChar(s[i]) /\ (i = 1 \/ ~IsWordChar(s[i - 1]))
        isEnd(j)   == IsWordChar(s[j]) /\ (j = Len(s) \/ ~IsWordChar(s[j + 1]))
        starts == Pick([i \in 1..Len(s) |-> i], {i \in 1..Len(s) : isStart(i)})
        ends   == Pick([i \in 1..Len(s) |-> i], {j \in 1..Len(s) : isEnd(j)})
    IN  Pick([k \in 1..Len(starts) |-> SubSeq(s, starts[k], ends[k])],
             {k \in 1..Len(starts) : ends[k] - starts[k] + 1 >= 2})

\* build_analyzer(): lower-case, tokenize, drop stop words, then the 1-grams
\* followed by the 2-grams (two tokens joined by a space).
Analyze(text) ==
    LET all  == Tokens(LowerText(text))
        toks == Pick(all, {i \in 1..Len(all) : all[i] \notin StopWords})
    IN  toks \o [i \in 1..(Len(toks) - 1) |-> toks[i] \o <<" ">> \o toks[i + 1]]

\* The order of the characters, for sorting terms.
Alphabet == <<" ", "a", "b", "c", "d", "e", "h", "i", "k", "n", "r", "s", "t">>

CharCode(c) == CHOOSE i \in 1..Len(Alphabet) : Alphabet[i] = c

\* a < b for strings, as Python compares them.
TermLess(a, b) ==
    \E k \in 1..(Len(b)) :
        /\ \A j \in 1..(k - 1) : j <= Len(a) /\ a[j] = b[j]
        /\ k - 1 <= Len(a)
        /\ (k > Len(a) \/ CharCode(a[k]) < CharCode(b[k]))

EmptyDict == [t \in {} |-> 0]

\* fit: vocabulary_ maps each term of the corpus to its rank among the
\* sorted terms, from 0.
FitVocabulary(texts) ==
    LET terms == UNION {Range(Analyze(texts[i])) : i \in 1..Len(texts)}
    IN  [t \in terms |-> Cardinality({u \in terms : TermLess(u, t)})]

\* transform(...).toarray(): row i is the weight vector of texts[i], column
\* vocabulary[t] + 1 holding the weight of term t.
Transform(vocabulary, texts) ==
    LET ncols == Cardinality(DOMAIN vocabulary)
        term(c) == CHOOSE t \in DOMAIN vocabulary : vocabulary[t] = c - 1
    IN  [i \in 1..Len(texts) |->
            LET an == Analyze(texts[i])
            IN  [c \in 1..ncols |->
                    Cardinality({k \in 1..Len(an) : an[k] = term(c)})]]

-----------------------------------------------------------------------------
(* The persisted artifacts: what json.dump / np.save write and what          *)
(* json.load / np.load read back.                                            *)

\* An absent file is <<>>, a present one <<its content>>.
NoFiles == [chunks |-> <<>>, matrix |-> <<>>, vocab |-> <<>>]

Exists(fs, name) == fs[name] # <<>>

\* json.dump of a dict: its members <<key, value>>, ordered here by value.
JsonDumpDict(d) ==
    LET n == Cardinality(DOMAIN d)
        byRank == [j \in 1..n |->
                    CHOOSE t \in DOMAIN d :
                        Cardinality({u \in DOMAIN d : d[u] < d[t]}) = j - 1]
    IN  [j \in 1..n |-> <<byRank[j], d[byRank[j]]>>]

\* json.load of an object: a dict of its members, the last of equal keys winning.
JsonLoadDict(members) ==
    [k \in {members[j][1] : j \in 1..Len(members)} |->
        members[SetMax({j \in 1..Len(members) : members[j][1] = k})][2]]

\* np.save of a 2-d array: its shape and its cells, row after row.
NpSave_ColumnMajor(m) ==
    LET rows == Len(m)
        cols == IF rows = 0 THEN 0 ELSE Len(m[1])
    IN  [shape |-> <<rows, cols>>,
         data  |-> [k \in 1..(rows * cols) |->
                        m[((k - 1) % rows) + 1][((k - 1) \div rows) + 1]]]

NpSave(m) ==
    LET rows == Len(m)
        cols == IF rows = 0 THEN 0 ELSE Len(m[1])
    IN  [shape |-> <<rows, cols>>,
         data  |-> [k \in 1..(rows * cols) |->
                        m[((k - 1) \div cols) + 1][((k - 1) % cols) + 1]]]

\* np.load: the cells put back into rows of shape[2] cells.
NpLoad(f) ==
    [i \in 1..f.shape[1] |->
        [j \in 1..f.shape[2] |-> f.data[(i - 1) * f.shape[2] + j]]]

-----------------------------------------------------------------------------
(* ingest_texts.py *)

\* chunk_text as a whole: the chunks it yields, in order (chunk.py:5-41).
RECURSIVE ChunkWindows(_, _, _, _, _)
ChunkWindows(text, start, chunk_size, overlap, min_chunk_size) ==
    IF start >= Len(text) THEN <<>>
    ELSE LET end == WindowEnd(text, start, chunk_size)
             rest == ChunkWindows(text, NextStart(start, end, overlap),
                                  chunk_size, overlap, min_chunk_size)
         IN  IF WindowYields(text, start, end, min_chunk_size)
             THEN <<Strip(Slice(text, start, end))>> \o rest
             ELSE rest

chunk_text(raw, chunk_size, overlap, min_chunk_size) ==
    LET text == NormalizeWhitespace(raw)
    IN  IF Len(text) <= chunk_size
        THEN (IF Len(text) >= min_chunk_size THEN <<text>> ELSE <<>>)
        ELSE ChunkWindows(text, 0, chunk_size, overlap, min_chunk_size)

\* min_chunk_size is left at its default by ingest_filings (chunk.py:9).
DefaultMinChunkSize == 50

\* ingest_texts.py:27-41: the chunks of every file, in the order glob gives
\* the files, each tagged with its file name and its index within the file.
CollectChunks(filings, chunk_size, overlap) ==
    Concat([d \in 1..Len(filings) |->
        LET cs == chunk_text(filings[d].text, chunk_size, overlap, DefaultMinChunkSize)
        IN  [i \in 1..Len(cs) |->
                [source |-> filings[d].name, chunk_id |-> i - 1, text |-> cs[i]]]])

\* The values the variables of the other components hold while one is run alone.
ChunkIdle ==
    /\ ckText = <<>>
    /\ ckSize = 0
    /\ ckOverlap = 0
    /\ ckMin = 0
    /\ ckStart = 0
    /\ ckYielded = <<>>
    /\ ckIters = 0
    /\ ckPc = "done"

IndexIdle ==
    /\ files = NoFiles
    /\ bPc = "idle"
    /\ bChunks = <<>>
    /\ bMatrix = <<>>
    /\ bVocab = EmptyDict
    /\ bStatus = "none"
    /\ engine = <<>>
    /\ geOutcome = "none"

NoCall == [op |-> "none", query |-> <<>>, top_k |-> 0, similarities |-> <<>>]

NoReturn == [raised |-> "", value |-> <<>>]

NoHttp == [status |-> 0, body |-> <<>>]

QueryIdle ==
    /\ qCall = NoCall
    /\ qResults = <<>>
    /\ qReturn = NoReturn
    /\ http = NoHttp

InitChunk ==
    /\ IndexIdle
    /\ QueryIdle
    /\ ckText \in ChunkTexts
    /\ ckSize \in ChunkSizes
    /\ ckOverlap \in Overlaps
    /\ ckMin \in MinChunkSizes
    /\ ckStart = 0
    /\ ckYielded = <<>>
    /\ ckIters = 0
    /\ ckPc = "call"

\* chunk.py:12-19: normalize, then either the single-chunk case or enter the loop.
ChunkCall ==
    /\ ckPc = "call"
    /\ LET text == NormalizeWhitespace(ckText)
       IN  /\ ckText' = text
           /\ IF Len(text) <= ckSize
              THEN /\ ckYielded' = IF Len(text) >= ckMin
                                   THEN <<  <<0, Len(text)>> >>
                                   ELSE <<>>
                   /\ ckPc' = "done"
              ELSE /\ ckYielded' = <<>>
                   /\ ckPc' = "loop"
    /\ ckStart' = 0
    /\ UNCHANGED <<ckSize, ckOverlap, ckMin, ckIters, ixVars, qVars>>

\* chunk.py:20-41: one iteration of the sliding-window loop.
ChunkIterate ==
    /\ ckPc = "loop"
    /\ ckStart < Len(ckText)
    /\ ckIters < MaxIters
    /\ LET end == WindowEnd(ckText, ckStart, ckSize)
       IN  /\ ckYielded' = IF WindowYields(ckText, ckStart, end, ckMin)
                            THEN Append(ckYielded, <<ckStart, end>>)
                            ELSE ckYielded
           /\ ckStart' = NextStart(ckStart, end, ckOverlap)
    /\ ckIters' = ckIters + 1
    /\ UNCHANGED <<ckText, ckSize, ckOverlap, ckMin, ckPc, ixVars, qVars>>

\* chunk.py:20: the loop condition fails and the generator is exhausted.
ChunkExhausted ==
    /\ ckPc = "loop"
    /\ ckStart >= Len(ckText)
    /\ ckPc' = "done"
    /\ UNCHANGED <<ckText, ckSize, ckOverlap, ckMin, ckStart, ckYielded, ckIters, ixVars, qVars>>

NextChunk == ChunkCall \/ ChunkIterate \/ ChunkExhausted

SpecChunk == InitChunk /\ [][NextChunk]_vars

-----------------------------------------------------------------------------
(* The filings directory, ingest_filings, _load_index and get_engine *)

DocA    == [name |-> "a.txt",
            text |-> Repeat(<<"R", "i", "s", "k", " ", "r", "a", "t", "e", ".", " ">>, 6)]

DocB    == [name |-> "b.txt",
            text |-> Repeat(<<"D", "e", "b", "t", "\n", "r", "a", "t", "e", ";", " ">>, 30)]

DocTiny == [name |-> "tiny.txt", text |-> <<"r", "i", "s", "k">>]

DocStop == [name |-> "stop.txt",
            text |-> Repeat(<<"t", "h", "e", " ", "a", "n", "d", ".", " ">>, 7)]

\* What filings_path.glob("*.txt") can list: no file, files too short to
\* chunk, one or two filings in either order, a filing of stop words only.
FilingsDirs ==
    { <<>>, <<DocTiny>>, <<DocA>>, <<DocA, DocB>>, <<DocB, DocA>>,
      <<DocTiny, DocB>>, <<DocStop>> }

\* (chunk_size, overlap): the defaults of ingest_texts.py:19-20 and a smaller pair.
ChunkConfigs == { <<512, 64>>, <<150, 20>> }

DocLong == [name |-> "long.txt",
            text |-> Repeat(<<"d", "e", "b", "t", " ", "r", "i", "s", "k", ".", " ">>, 46)]

\* The (directory, configuration) pairs whose index is served.
ServedBuilds ==
    { <<<<DocA>>, <<512, 64>>>>, <<<<DocA, DocB>>, <<512, 64>>>>,
      <<<<DocB, DocA>>, <<150, 20>>>>, <<<<DocLong>>, <<512, 64>>>> }

\* ingest_texts.py:27-57 on the files of one directory: the chunks, and the
\* vocabulary and matrix fit_transform derives from their texts.
BuildIndex(filings, chunk_size, overlap) ==
    LET chunks == CollectChunks(filings, chunk_size, overlap)
        texts  == [i \in 1..Len(chunks) |-> chunks[i].text]
        vocab  == FitVocabulary(texts)
    IN  [chunks |-> chunks, vocab |-> vocab, matrix |-> Transform(vocab, texts)]

\* BuildIndex for each directory and configuration modelled, worked out once.
BuildTable ==
    LET keys == (FilingsDirs \X ChunkConfigs) \cup ServedBuilds
        one(k) == <<k, BuildIndex(k[1], k[2][1], k[2][2])>>
    IN  {one(k) : k \in keys}

BuiltIndex(filings, chunk_size, overlap) ==
    (CHOOSE e \in BuildTable : e[1] = <<filings, <<chunk_size, overlap>>>>)[2]

\* ingest_texts.py:23-57: chunk every file; return the error status when
\* there is no chunk; otherwise fit the vectorizer (which raises ValueError
\* on an empty vocabulary) and go on to write.
IngestBegin_NoEmptyCheck(filings, chunk_size, overlap) ==
    /\ bPc = "idle"
    /\ LET built == BuiltIndex(filings, chunk_size, overlap)
       IN  IF DOMAIN built.vocab = {}
           THEN /\ bStatus' = "ValueError"
                /\ UNCHANGED <<bPc, bChunks, bMatrix, bVocab>>
           ELSE /\ bChunks' = built.chunks
                /\ bVocab' = built.vocab
                /\ bMatrix' = built.matrix
                /\ bPc' = "save_chunks"
                /\ bStatus' = "running"
    /\ UNCHANGED <<files, engine, geOutcome, ckVars, qVars>>

IngestBegin(filings, chunk_size, overlap) ==
    /\ bPc = "idle"
    /\ LET built == BuiltIndex(filings, chunk_size, overlap)
       IN  IF built.chunks = <<>>
           THEN /\ bStatus' = "error"
                /\ UNCHANGED <<bPc, bChunks, bMatrix, bVocab>>
           ELSE IF DOMAIN built.vocab = {}
           THEN /\ bStatus' = "ValueError"
                /\ UNCHANGED <<bPc, bChunks, bMatrix, bVocab>>
           ELSE /\ bChunks' = built.chunks
                /\ bVocab' = built.vocab
                /\ bMatrix' = built.matrix
                /\ bPc' = "save_chunks"
                /\ bStatus' = "running"
    /\ UNCHANGED <<files, engine, geOutcome, ckVars, qVars>>

\* ingest_texts.py:59-62
IngestSaveChunks ==
    /\ bPc = "save_chunks"
    /\ files' = [files EXCEPT !.chunks = <<bChunks>>]
    /\ bPc' = "save_matrix"
    /\ UNCHANGED <<bChunks, bMatrix, bVocab, bStatus, engine, geOutcome, ckVars, qVars>>

\* ingest_texts.py:64-66
IngestSaveMatrix ==
    /\ bPc = "save_matrix"
    /\ files' = [files EXCEPT !.matrix = <<NpSave(bMatrix)>>]
    /\ bPc' = "save_vocab"
    /\ UNCHANGED <<bChunks, bMatrix, bVocab, bStatus, engine, geOutcome, ckVars, qVars>>

\* ingest_texts.py:68-82
IngestSaveVocab ==
    /\ bPc = "save_vocab"
    /\ files' = [files EXCEPT !.vocab = <<JsonDumpDict(bVocab)>>]
    /\ bPc' = "idle"
    /\ bStatus' = "success"
    /\ UNCHANGED <<bChunks, bMatrix, bVocab, engine, geOutcome, ckVars, qVars>>

\* rag.py:42-43: every artifact must exist.
ArtifactsPresent(fs) ==
    \A name \in {"chunks", "matrix", "vocab"} : Exists(fs, name)

\* A Python value that is a string or an integer: the string is text followed
\* by the decimal digits of num (an f-string such as f"{source}_{chunk_id}").
StrId(text, num) == [type |-> "str", text |-> text, num |-> num]

\* rag.py:51-57: the documents, in the order of chunks.json.
LoadDocuments(chunks) ==
    [i \in 1..Len(chunks) |->
        [chunk_id    |-> StrId(chunks[i].source \o "_", chunks[i].chunk_id),
         text        |-> chunks[i].text,
         source_file |-> chunks[i].source]]

\* RAGEngine.__init__ and _load_index (rag.py:31-75): the engine, or the
\* exception raised.
LoadIndex(fs) ==
    IF ~ArtifactsPresent(fs)
    THEN [raised |-> "FileNotFoundError", engine |-> <<>>]
    ELSE [raised |-> "",
          engine |-> << [documents    |-> LoadDocuments(fs.chunks[1]),
                         tfidf_matrix |-> NpLoad(fs.matrix[1]),
                         vocabulary   |-> JsonLoadDict(fs.vocab[1]),
                         ready        |-> TRUE] >>]

\* get_engine (rag.py:181-186): the singleton afterwards, or what the
\* constructor raised.
get_engine_DefaultsEmpty(eng, fs) ==
    IF eng # <<>> THEN [raised |-> "", engine |-> eng]
    ELSE IF LoadIndex(fs).raised = "" THEN LoadIndex(fs)
    ELSE [raised |-> "",
          engine |-> << [documents |-> <<>>, tfidf_matrix |-> <<>>,
                         vocabulary |-> EmptyDict, ready |-> TRUE] >>]

get_engine(eng, fs) ==
    IF eng = <<>> THEN LoadIndex(fs) ELSE [raised |-> "", engine |-> eng]

GetEngine ==
    /\ LET r == get_engine(engine, files)
       IN  /\ engine' = r.engine
           /\ geOutcome' = IF r.raised = "" THEN "engine" ELSE r.raised
    /\ UNCHANGED <<files, bPc, bChunks, bMatrix, bVocab, bStatus, ckVars, qVars>>

\* A serving process starts: rag.py:178 leaves _engine unset.
ServerStart ==
    /\ engine' = <<>>
    /\ geOutcome' = "none"
    /\ UNCHANGED <<files, bPc, bChunks, bMatrix, bVocab, bStatus, ckVars, qVars>>

InitIndex ==
    /\ ChunkIdle
    /\ IndexIdle
    /\ QueryIdle

NextIndex ==
    \/ \E filings \in FilingsDirs, cfg \in ChunkConfigs :
            IngestBegin(filings, cfg[1], cfg[2])
    \/ IngestSaveChunks
    \/ IngestSaveMatrix
    \/ IngestSaveVocab
    \/ GetEngine
    \/ ServerStart

SpecIndex == InitIndex /\ [][NextIndex]_vars

-----------------------------------------------------------------------------
(* Retrieval (rag.py:81-92).  Scores are fixed-point numbers, ScoreOne       *)
(* standing for 1.0.                                                         *)

ScoreOne == 100 * 1000

\* rag.py:14
CONFIDENCE_THRESHOLD == (15 * ScoreOne) \div 100

\* rag.py:15
TOP_K == 3

\* vectorizer.transform([query]): the weight of each vocabulary column in the
\* query; a term outside the vocabulary has no column.
QueryVector(eng, query) ==
    LET an == Analyze(query)
    IN  [c \in 1..Cardinality(DOMAIN eng.vocabulary) |->
            Cardinality({k \in 1..Len(an) :
                an[k] \in DOMAIN eng.vocabulary /\ eng.vocabulary[an[k]] = c - 1})]

\* Whether the query and matrix row i share a term, i.e. their dot product
\* and so their cosine similarity is positive.
SharesTerm(eng, query, i) ==
    LET q == QueryVector(eng, query)
    IN  \E c \in 1..Len(q) : q[c] > 0 /\ eng.tfidf_matrix[i][c] > 0

\* The values a positive cosine similarity takes in the model: below, just
\* below, at and above the threshold, above one half, and 1.0.
PositiveScores ==
    { (4 * ScoreOne) \div 100, CONFIDENCE_THRESHOLD - 1, CONFIDENCE_THRESHOLD,
      (30 * ScoreOne) \div 100 + 4, (70 * ScoreOne) \div 100, ScoreOne }

\* cosine_similarity(query_vec, tfidf_matrix).flatten(): one score per matrix
\* row, 0 exactly for the rows that share no term with the query.  The
\* magnitude of a positive score is left open.
Similarities(eng, query) ==
    { sims \in [1..Len(eng.tfidf_matrix) -> PositiveScores \cup {0}] :
        \A i \in 1..Len(eng.tfidf_matrix) :
            (sims[i] > 0) <=> SharesTerm(eng, query, i) }

\* np.argsort(similarities): the indices in ascending order of score; the
\* order of equal scores is whatever the sort gives.
ArgSorts(sims) ==
    { p \in [1..Len(sims) -> 1..Len(sims)] :
        /\ \A i, j \in 1..Len(sims) : i # j => p[i] # p[j]
        /\ \A i \in 1..(Len(sims) - 1) : sims[p[i]] <= sims[p[i + 1]] }

Reverse(s) == [i \in 1..Len(s) |-> s[Len(s) + 1 - i]]

\* s[-k:] as Python slices it: the last k elements for k > 0, everything for
\* k = 0 (-0 is 0), and s[|k|:] for k < 0.
LastSlice(s, k) ==
    IF k > 0 THEN SubSeq(s, Max2(Len(s) - k + 1, 1), Len(s))
    ELSE SubSeq(s, 1 - k, Len(s))

\* rag.py:89: only a positive score is kept.
KeepsScore(score) == score > 0

\* rag.py:85-92 for one outcome p of the argsort.
RetrieveWith(eng, sims, top_k, p) ==
    LET top_indices == Reverse(LastSlice(p, top_k))
        kept == Pick(top_indices,
                     {n \in 1..Len(top_indices) : KeepsScore(sims[top_indices[n]])})
    IN  IF \E n \in 1..Len(kept) : kept[n] > Len(eng.documents)
        THEN [raised |-> "IndexError", value |-> <<>>]
        ELSE [raised |-> "",
              value  |-> [n \in 1..Len(kept) |->
                            [doc |-> eng.documents[kept[n]], score |-> sims[kept[n]]]]]

\* RAGEngine.retrieve: every result the call can give for these similarities.
retrieve(eng, sims, top_k) ==
    { RetrieveWith(eng, sims, top_k, p) : p \in ArgSorts(sims) }

-----------------------------------------------------------------------------
(* schemas.py: what pydantic accepts.  A model is built from keyword         *)
(* arguments or from a dict; a key the model does not declare is ignored, a  *)
(* required field that is missing or of the wrong type raises               *)
(* ValidationError.                                                          *)

\* An int field takes an int, or a string made of digits only.
IntField(v) == v.type = "int" \/ (v.type = "str" /\ v.text = "")

\* ge=0.0, le=1.0
UnitField(x) == 0 <= x /\ x <= ScoreOne

\* schemas.py:11-16: Citation(source, chunk_id, text, score)
CitationValid(kw) ==
    /\ {"source", "chunk_id", "text", "score"} \subseteq DOMAIN kw
    /\ IntField(kw.chunk_id)
    /\ UnitField(kw.score)

\* The Citation built from arguments that validate: its declared fields only.
CitationOf(kw) ==
    [source |-> kw.source, chunk_id |-> kw.chunk_id.num,
     text |-> kw.text, score |-> kw.score]

\* schemas.py:19-24: AskResponse(answer, citations, confidence, abstained)
AskResponseValid(kw) ==
    /\ \A n \in 1..Len(kw.citations) : CitationValid(kw.citations[n])
    /\ UnitField(kw.confidence)

AskResponseOf(kw) ==
    [answer     |-> kw.answer,
     citations  |-> [n \in 1..Len(kw.citations) |-> CitationOf(kw.citations[n])],
     confidence |-> kw.confidence,
     abstained  |-> kw.abstained]

\* schemas.py:8: AskRequest.question, min_length=1, max_length=1000
MinQuestionLength == 1

MaxQuestionLength == 1000

AskRequestValid(question) ==
    MinQuestionLength <= Len(question) /\ Len(question) <= MaxQuestionLength

-----------------------------------------------------------------------------
(* Synthesis (rag.py:94-175) *)

\* s.split(sep) for a single-character separator class: the pieces between
\* separators, empty ones included.
SplitOn(s, seps) ==
    LET at == Pick([i \in 1..Len(s) |-> i], {i \in 1..Len(s) : s[i] \in seps})
    IN  [k \in 1..(Len(at) + 1) |->
            SubSeq(s, IF k = 1 THEN 1 ELSE at[k - 1] + 1,
                      IF k = Len(at) + 1 THEN Len(s) ELSE at[k] - 1)]

\* set(s.lower().split())
WordSet(s) == Range(SplitOn(LowerText(s), Whitespace)) \ {<<>>}

\* " ".join(contexts)
RECURSIVE JoinSpace(_)
JoinSpace(texts) ==
    IF texts = <<>> THEN <<>>
    ELSE IF Len(texts) = 1 THEN texts[1]
    ELSE texts[1] \o <<" ">> \o JoinSpace(Tail(texts))

\* len(sent) < 20 is skipped (rag.py:117)
MinSentenceLength == 20

\* relevant_sentences[:3] (rag.py:125)
MaxSentences == 3

\* contexts[0][:300] (rag.py:133)
FallbackLength == 300

NoAnswer == [kind |-> "empty", sentences |-> <<>>, sources |-> <<>>, prefix |-> <<>>]

\* rag.py:109-125: the sentences that share a word with the query, by
\* falling overlap, earlier first among equals; at most three.
TopSentences(query, contexts) ==
    LET raw   == SplitOn([i \in 1..Len(JoinSpace(contexts)) |->
                            IF JoinSpace(contexts)[i] = "\n" THEN " "
                            ELSE JoinSpace(contexts)[i]], {"."})
        sents == [k \in 1..Len(raw) |-> Strip(raw[k])]
        ov(k) == Cardinality(WordSet(query) \cap WordSet(sents[k]))
        rel   == {k \in 1..Len(sents) :
                    Len(sents[k]) >= MinSentenceLength /\ ov(k) > 0}
        rank(k) == Cardinality({j \in rel :
                        ov(j) > ov(k) \/ (ov(j) = ov(k) /\ j < k)})
    IN  [r \in 1..Min2(MaxSentences, Cardinality(rel)) |->
            sents[CHOOSE k \in rel : rank(k) = r - 1]]

\* list(set(c.source_file for c in citations)): the distinct sources in the
\* order the set happens to iterate, which Python does not fix for strings.
SourceLists(citations) ==
    LET names == {citations[n].source_file : n \in 1..Len(citations)}
    IN  { order \in [1..Cardinality(names) -> names] :
            \A i, j \in 1..Cardinality(names) : i # j => order[i] # order[j] }

\* _generate_answer (rag.py:149-175): every answer the call can give.  An
\* answer is kept in parts: the sentences joined by ". " and the bracketed
\* source list, or the prefix of the fallback.
generate_answer(query, contexts, citations) ==
    LET top == TopSentences(query, contexts)
    IN  IF top # <<>>
        THEN { [kind |-> "extract", sentences |-> top, sources |-> order,
                prefix |-> <<>>] : order \in SourceLists(citations) }
        ELSE { [kind |-> "fallback", sentences |-> <<>>, sources |-> <<>>,
                prefix |-> Slice(contexts[1], 0, FallbackLength)] }

\* round(x, 4) and f"{x:.2f}" on a fixed-point score: to the nearest multiple
\* of unit.  No modelled score lies halfway between two multiples.
RoundTo(x, unit) == ((x + unit \div 2) \div unit) * unit

Round4(x) == RoundTo(x, ScoreOne \div 10000)

Round2(x) == RoundTo(x, ScoreOne \div 100)

\* doc["text"][:500] + ("..." if len(doc["text"]) > 500 else "")  (rag.py:134)
ExcerptLimit == 500

Excerpt(text) ==
    Slice(text, 0, ExcerptLimit)
        \o (IF Len(text) > ExcerptLimit THEN <<".", ".", ".">> ELSE <<>>)

\* The keyword arguments of Citation(...) at rag.py:132-137.
CitationArgs(result) ==
    [chunk_id    |-> result.doc.chunk_id,
     text        |-> Excerpt(result.doc.text),
     score       |-> Round4(result.score),
     source_file |-> result.doc.source_file]

\* rag.py:118-119: confidence = min(top_score * 2, 1.0)
Confidence(top_score) == Min2(top_score * 2, ScoreOne)

\* rag.py:121: the gate.
BelowThreshold_Inclusive(top_score) == top_score <= CONFIDENCE_THRESHOLD

BelowThreshold(top_score) == top_score < CONFIDENCE_THRESHOLD

\* rag.py:109-116: the dict returned when retrieve gave nothing.
NoResultsDict ==
    [answer |-> NoAnswer, confidence |-> 0, citations |-> <<>>,
     abstained |-> TRUE,
     message |-> [text |-> "No relevant information found.", arg |-> 0]]

\* rag.py:121-128: the dict returned when the top score is below the threshold.
LowConfidenceDict_WithCitations(results) ==
    [answer |-> NoAnswer,
     confidence |-> Confidence(results[1].score),
     citations |-> [n \in 1..Len(results) |-> CitationArgs(results[n])],
     abstained |-> TRUE,
     message |-> [text |-> "Confidence too low ({:.2f}).",
                  arg |-> Round2(Confidence(results[1].score))]]

LowConfidenceDict(results) ==
    [answer |-> NoAnswer,
     confidence |-> Confidence(results[1].score),
     citations |-> <<>>,
     abstained |-> TRUE,
     message |-> [text |-> "Confidence too low ({:.2f}).",
                  arg |-> Round2(Confidence(results[1].score))]]

\* synthesize (rag.py:105-147) on the results its retrieve gave: every
\* outcome, a returned dict or a raised exception.
SynthesizeFrom(query, results) ==
    IF results = <<>>
    THEN { [raised |-> "", value |-> <<NoResultsDict>>] }
    ELSE IF BelowThreshold(results[1].score)
    THEN { [raised |-> "", value |-> <<LowConfidenceDict(results)>>] }
    ELSE LET args == [n \in 1..Len(results) |-> CitationArgs(results[n])]
         IN  IF \E n \in 1..Len(args) : ~CitationValid(args[n])
             THEN { [raised |-> "ValidationError", value |-> <<>>] }
             ELSE { [raised |-> "",
                     value  |-> << [answer |-> a,
                                    confidence |-> Round4(Confidence(results[1].score)),
                                    citations |-> [n \in 1..Len(args) |-> CitationOf(args[n])],
                                    abstained |-> FALSE] >>] :
                    a \in generate_answer(query,
                                          [n \in 1..Len(results) |-> results[n].doc.text],
                                          args) }

\* RAGEngine.ask (rag.py:94-103): the RAGResponse made of a synthesize dict;
\* message is None when the dict has no such key.
NoMessage == [text |-> "None", arg |-> 0]

RAGResponseOf(dict) ==
    [answer     |-> dict.answer,
     confidence |-> dict.confidence,
     citations  |-> dict.citations,
     abstained  |-> dict.abstained,
     message    |-> IF "message" \in DOMAIN dict THEN dict.message ELSE NoMessage]

-----------------------------------------------------------------------------
(* The engine's calls and POST /ask, against an index a finished build left *)

\* The three artifacts as a finished ingest_filings leaves them
\* (ingest_texts.py:59-72).
SavedFiles(built) ==
    [chunks |-> <<built.chunks>>,
     matrix |-> <<NpSave(built.matrix)>>,
     vocab  |-> <<JsonDumpDict(built.vocab)>>]

Queries ==
    { <<"W", "h", "a", "t", " ", "a", "r", "e", " ", "t", "h", "e", " ", "R", "i", "s", "k", " ", "r", "a", "t", "e">>,
      <<"d", "e", "b", "t">>,
      <<"c", "a", "s", "h", " ", "f", "l", "o", "w">> }

TopKs == {0, 1, 2, TOP_K, 5}

\* The dict the mocked engine of tests/test_ask.py:10-23 returns from synthesize.
MockSynthesize ==
    [answer     |-> [kind |-> "mock", sentences |-> <<>>, sources |-> <<>>,
                     prefix |-> <<>>],
     citations  |-> << [chunk_id    |-> StrId("chunk_00", 1),
                        text        |-> <<"S", "a", "m", "p", "l", "e", " ", "c", "i", "t", "a", "t", "i", "o", "n", " ", "t", "e", "x", "t", ".", ".", ".">>,
                        score       |-> (85 * ScoreOne) \div 100,
                        source_file |-> "10k_2023.txt"] >>,
     confidence |-> (85 * ScoreOne) \div 100,
     abstained  |-> FALSE]

InitQuery ==
    /\ ChunkIdle
    /\ QueryIdle
    /\ engine = <<>>
    /\ geOutcome = "none"
    /\ bPc = "idle"
    /\ \/ /\ files = NoFiles
          /\ bChunks = <<>>
          /\ bMatrix = <<>>
          /\ bVocab = EmptyDict
          /\ bStatus = "none"
       \/ \E k \in ServedBuilds :
            LET built == BuiltIndex(k[1], k[2][1], k[2][2])
            IN  /\ files = SavedFiles(built)
                /\ bChunks = built.chunks
                /\ bMatrix = built.matrix
                /\ bVocab = built.vocab
                /\ bStatus = "success"

\* engine.retrieve(query, top_k)
Retrieve(query, top_k) ==
    /\ qCall = NoCall
    /\ engine # <<>>
    /\ \E sims \in Similarities(engine[1], query) :
       \E r \in retrieve(engine[1], sims, top_k) :
            /\ qCall' = [op |-> "retrieve", query |-> query, top_k |-> top_k,
                         similarities |-> sims]
            /\ qResults' = r.value
            /\ qReturn' = [raised |-> r.raised, value |-> <<>>]
    /\ http' = NoHttp
    /\ UNCHANGED <<ixVars, ckVars>>

\* synthesize (rag.py:105-147) from its call of retrieve on: every pair of
\* the retrieve result and the outcome.
synthesize(eng, query, sims) ==
    UNION { IF r.raised # ""
            THEN { [results |-> <<>>, out |-> r] }
            ELSE { [results |-> r.value, out |-> o] :
                        o \in SynthesizeFrom(query, r.value) } :
            r \in retrieve(eng, sims, TOP_K) }

\* engine.synthesize(query)
Synthesize(query) ==
    /\ qCall = NoCall
    /\ engine # <<>>
    /\ \E sims \in Similarities(engine[1], query) :
       \E s \in synthesize(engine[1], query, sims) :
            /\ qCall' = [op |-> "synthesize", query |-> query, top_k |-> TOP_K,
                         similarities |-> sims]
            /\ qResults' = s.results
            /\ qReturn' = s.out
    /\ http' = NoHttp
    /\ UNCHANGED <<ixVars, ckVars>>

\* engine.ask(query) (rag.py:94-103)
Ask(query) ==
    /\ qCall = NoCall
    /\ engine # <<>>
    /\ \E sims \in Similarities(engine[1], query) :
       \E s \in synthesize(engine[1], query, sims) :
            /\ qCall' = [op |-> "ask", query |-> query, top_k |-> TOP_K,
                         similarities |-> sims]
            /\ qResults' = s.results
            /\ qReturn' = IF s.out.raised # "" THEN s.out
                          ELSE [raised |-> "",
                                value  |-> <<RAGResponseOf(s.out.value[1])>>]
    /\ http' = NoHttp
    /\ UNCHANGED <<ixVars, ckVars>>

\* main.py:59-66: the response for what synthesize returned or raised; any
\* exception, that of AskResponse included, becomes status 500.
EndpointResponse(out) ==
    IF out.raised # "" THEN [status |-> 500, body |-> <<>>]
    ELSE LET kw == [answer     |-> out.value[1].answer,
                    citations  |-> out.value[1].citations,
                    confidence |-> out.value[1].confidence,
                    abstained  |-> out.value[1].abstained]
         IN  IF AskResponseValid(kw)
             THEN [status |-> 200, body |-> <<AskResponseOf(kw)>>]
             ELSE [status |-> 500, body |-> <<>>]

\* POST /ask (main.py:53-66) with the question given; a question AskRequest
\* rejects is answered 422 before the handler runs.
AskEndpointRun(question) ==
    IF ~AskRequestValid(question)
    THEN /\ http' = [status |-> 422, body |-> <<>>]
         /\ qCall' = [op |-> "POST /ask", query |-> question, top_k |-> 0,
                      similarities |-> <<>>]
         /\ qResults' = <<>>
         /\ qReturn' = NoReturn
         /\ UNCHANGED <<ixVars, ckVars>>
    ELSE LET g == get_engine(engine, files)
         IN  /\ engine' = g.engine
             /\ geOutcome' = IF g.raised = "" THEN "engine" ELSE g.raised
             /\ IF g.raised # ""
                THEN /\ http' = [status |-> 500, body |-> <<>>]
                     /\ qCall' = [op |-> "POST /ask", query |-> question,
                                  top_k |-> 0, similarities |-> <<>>]
                     /\ qResults' = <<>>
                     /\ qReturn' = [raised |-> g.raised, value |-> <<>>]
                ELSE \E sims \in Similarities(g.engine[1], question) :
                     \E s \in synthesize(g.engine[1], question, sims) :
                        /\ qCall' = [op |-> "POST /ask", query |-> question,
                                     top_k |-> TOP_K, similarities |-> sims]
                        /\ qResults' = s.results
                        /\ qReturn' = s.out
                        /\ http' = EndpointResponse(s.out)
             /\ UNCHANGED <<files, bPc, bChunks, bMatrix, bVocab, bStatus, ckVars>>

AskEndpoint(question) ==
    /\ qCall = NoCall
    /\ AskEndpointRun(question)

\* POST /ask with get_engine patched to the mocked engine, as
\* tests/test_ask.py:40-53 and 65-82 call it.
AskEndpointMocked(question) ==
    /\ qCall = NoCall
    /\ AskRequestValid(question)
    /\ qCall' = [op |-> "POST /ask mocked", query |-> question, top_k |-> 0,
                 similarities |-> <<>>]
    /\ qResults' = <<>>
    /\ qReturn' = [raised |-> "", value |-> <<MockSynthesize>>]
    /\ http' = EndpointResponse([raised |-> "", value |-> <<MockSynthesize>>])
    /\ UNCHANGED <<ixVars, ckVars>>

\* engine._generate_answer(query, contexts, citations) (rag.py:149-175),
\* called as rag.py:139-140 calls it: on the texts of the chunks retrieve
\* gave, which are not empty there, and on one object per chunk that carries
\* the attributes of rag.py:132-137, source_file among them.
GenerateAnswer(query) ==
    /\ qCall = NoCall
    /\ engine # <<>>
    /\ \E sims \in Similarities(engine[1], query) :
       \E r \in retrieve(engine[1], sims, TOP_K) :
            /\ r.raised = ""
            /\ r.value # <<>>
            /\ \E a \in generate_answer(query,
                            [n \in 1..Len(r.value) |-> r.value[n].doc.text],
                            [n \in 1..Len(r.value) |-> CitationArgs(r.value[n])]) :
                    /\ qCall' = [op |-> "_generate_answer", query |-> query,
                                 top_k |-> TOP_K, similarities |-> sims]
                    /\ qResults' = r.value
                    /\ qReturn' = [raised |-> "", value |-> <<a>>]
    /\ http' = NoHttp
    /\ UNCHANGED <<ixVars, ckVars>>

\* The caller has taken the result of the last call; calls are made one
\* after another.
CallReturns ==
    /\ qCall # NoCall
    /\ qCall' = NoCall
    /\ qResults' = <<>>
    /\ qReturn' = NoReturn
    /\ http' = NoHttp
    /\ UNCHANGED <<ixVars, ckVars>>

NextQuery ==
    \/ GetEngine
    \/ CallReturns
    \/ \E query \in Queries, top_k \in TopKs : Retrieve(query, top_k)
    \/ \E query \in Queries : Synthesize(query)
    \/ \E query \in Queries : Ask(query)
    \/ \E query \in Queries : GenerateAnswer(query)
    \/ \E question \in Queries \cup {<<>>} : AskEndpoint(question)
    \/ \E question \in Queries : AskEndpointMocked(question)

SpecQuery == InitQuery /\ [][NextQuery]_vars

-----------------------------------------------------------------------------
(* C1 *)

\* C1: on each iteration of the sliding-window loop of chunk_text the window
\* start strictly increases (so the generator is exhausted after finitely
\* many steps), for every text, chunk_size, overlap and min_chunk_size.
C1_StartStrictlyIncreases ==
    [][(ckPc = "loop" /\ ckPc' = "loop") => ckStart' > ckStart]_vars

-----------------------------------------------------------------------------
(* C2 - C5, C10: the engine's calls and POST /ask, under SpecQuery *)

\* The highest similarity of the last call, 0 when the index has no row.
TopRawScore == SetMax(Range(qCall.similarities) \cup {0})

Returned == qReturn.raised = "" /\ qReturn.value # <<>>

Abstained == Returned /\ qReturn.value[1].abstained

\* C2: for every query and every top_k, 0 included, retrieve returns
\* (chunk, score) pairs whose scores do not increase, at most top_k of them,
\* none with a score <= 0.
C2_RetrieveContract ==
    (qCall.op = "retrieve" /\ qReturn.raised = "") =>
        /\ \A n \in 1..(Len(qResults) - 1) : qResults[n].score >= qResults[n + 1].score
        /\ Len(qResults) <= qCall.top_k
        /\ \A n \in 1..Len(qResults) : qResults[n].score > 0

\* C3: synthesize abstains exactly when retrieval returned nothing or the top
\* raw score is below CONFIDENCE_THRESHOLD; a low-score abstain returns
\* confidence min(top_score * 2, 1.0), which is not zero, and a no-result
\* abstain returns confidence 0.0.
C3_AbstainIffLowOrEmpty ==
    qCall.op = "synthesize" =>
        /\ Abstained <=> (qResults = <<>> \/ TopRawScore < CONFIDENCE_THRESHOLD)
        /\ (qResults = <<>>) <=> (TopRawScore = 0)
        /\ (Abstained /\ qResults # <<>>) =>
                /\ qReturn.value[1].confidence = Min2(TopRawScore * 2, ScoreOne)
                /\ qReturn.value[1].confidence > 0
        /\ (Abstained /\ qResults = <<>>) => qReturn.value[1].confidence = 0

C3_Witness_LowScoreAbstain ==
    /\ qCall.op = "synthesize"
    /\ Abstained
    /\ Len(qResults) >= 2
    /\ TopRawScore = CONFIDENCE_THRESHOLD - 1
    /\ qReturn.value[1].confidence = 2 * TopRawScore

\* Whether a returned response carries a message.
MessagePopulated(v) == "message" \in DOMAIN v /\ v.message # NoMessage

\* C4: every response synthesize or ask returns has a message only when
\* abstained is true, a confidence in [0,1], and no citations when abstained
\* is true.
C4_ResponseWellFormed ==
    (qCall.op \in {"synthesize", "ask"} /\ Returned) =>
        LET v == qReturn.value[1]
        IN  /\ MessagePopulated(v) => v.abstained
            /\ 0 <= v.confidence /\ v.confidence <= ScoreOne
            /\ v.abstained => v.citations = <<>>

C4_Witness_AskAbstains ==
    /\ qCall.op = "ask"
    /\ Abstained
    /\ qResults # <<>>
    /\ MessagePopulated(qReturn.value[1])
    /\ qReturn.value[1].citations = <<>>
    /\ qReturn.value[1].confidence > 0

\* C5: when the top retrieval score is at or above CONFIDENCE_THRESHOLD,
\* synthesize returns normally with abstained = false and one Citation per
\* retrieved chunk, in retrieval order, carrying the chunk's id, its excerpt
\* (at most 500 characters, then an ellipsis if cut), its score rounded to 4
\* decimals and its source document id.
C5_AnswersWithCitations ==
    (qCall.op = "synthesize" /\ TopRawScore >= CONFIDENCE_THRESHOLD) =>
        /\ Returned
        /\ ~qReturn.value[1].abstained
        /\ Len(qReturn.value[1].citations) = Len(qResults)
        /\ \A n \in 1..Len(qResults) :
            LET c == qReturn.value[1].citations[n]
            IN  /\ c.chunk_id = qResults[n].doc.chunk_id
                /\ c.text = Excerpt(qResults[n].doc.text)
                /\ c.score = Round4(qResults[n].score)
                /\ c.source_file = qResults[n].doc.source_file

\* C10: POST /ask with a valid question, the engine mocked to return a
\* non-abstained result whose citations carry chunk_id (a string id), text,
\* score and source_file, answers 200 with a body holding answer, confidence
\* and citations, each citation exposing chunk_id, text, score, source_file.
C10_MockedAskAnswers200 ==
    qCall.op = "POST /ask mocked" =>
        /\ http.status = 200
        /\ http.body # <<>>
        /\ {"answer", "confidence", "citations"} \subseteq DOMAIN http.body[1]
        /\ \A n \in 1..Len(http.body[1].citations) :
            {"chunk_id", "text", "score", "source_file"}
                \subseteq DOMAIN http.body[1].citations[n]

-----------------------------------------------------------------------------
(* C11: the source list of _generate_answer, under SpecQuery *)

\* The distinct source documents of the retrieved chunks, each once, in the
\* order in which the retrieved chunks first name them.
FirstAppearance(results) ==
    Pick([n \in 1..Len(results) |-> results[n].doc.source_file],
         {n \in 1..Len(results) :
            \A m \in 1..(n - 1) :
                results[m].doc.source_file # results[n].doc.source_file})

\* C11: when at least one segment overlaps the query, the answer of
\* _generate_answer ends with a source list that names each distinct source
\* document of the retrieved chunks exactly once, in order of first
\* appearance among the retrieved chunks, so that the same query and
\* retrieval result always give the same answer.
C11_SourcesInFirstAppearanceOrder ==
    (qCall.op = "_generate_answer" /\ qReturn.value[1].kind = "extract") =>
        qReturn.value[1].sources = FirstAppearance(qResults)

-----------------------------------------------------------------------------
(* C6 - C9: building and loading the index, under SpecIndex *)

\* C6 as claimed: after a build that found no chunk, whatever was built
\* before, the three artifacts are absent and a load fails with the
\* index-not-found error.
C6_FailedBuildLeavesNoIndex ==
    (bPc = "idle" /\ bStatus = "error") =>
        /\ files = NoFiles
        /\ LoadIndex(files).raised = "FileNotFoundError"

\* C6 as amended: a build that finds no document, or whose documents all
\* yield zero chunks, returns the failure status and writes none of the
\* three artifacts, so the index directory is as it was before the build;
\* when no artifact was there before, none is there after it and a load
\* fails with the index-not-found error.
C6_FailedBuildWritesNothing ==
    [][\A filings \in FilingsDirs, cfg \in ChunkConfigs :
        (IngestBegin(filings, cfg[1], cfg[2])
            /\ BuiltIndex(filings, cfg[1], cfg[2]).chunks = <<>>) =>
                /\ bStatus' = "error"
                /\ bPc' = "idle"
                /\ files' = files
                /\ (files = NoFiles =>
                        LoadIndex(files').raised = "FileNotFoundError")]_vars

C6_Witness_FailedBuildThenLoad ==
    /\ bPc = "idle"
    /\ bStatus = "error"
    /\ files = NoFiles
    /\ geOutcome = "FileNotFoundError"
    /\ engine = <<>>

\* C7: while at least one of the three artifacts is absent, loading fails
\* with the index-not-found error: get_engine leaves the singleton unset,
\* and no engine a caller holds is ready on an empty or partly loaded index.
C7_LoadFailsWhenArtifactMissing ==
    /\ [][(engine = <<>> /\ ~ArtifactsPresent(files) /\ GetEngine) =>
            (engine' = <<>> /\ geOutcome' = "FileNotFoundError")]_vars
    /\ [](engine # <<>> =>
            /\ engine[1].ready
            /\ engine[1].documents # <<>>
            /\ engine[1].tfidf_matrix # <<>>
            /\ DOMAIN engine[1].vocabulary # {})

C7_Witness_PartialIndexRefused ==
    /\ geOutcome = "FileNotFoundError"
    /\ engine = <<>>
    /\ Exists(files, "chunks")
    /\ Exists(files, "matrix")
    /\ ~Exists(files, "vocab")

\* Whether the matrix an engine holds has one row per document and one column
\* per vocabulary term.
EngineConsistent(e) ==
    /\ Len(e.tfidf_matrix) = Len(e.documents)
    /\ \A i \in 1..Len(e.tfidf_matrix) :
            Len(e.tfidf_matrix[i]) = Cardinality(DOMAIN e.vocabulary)

\* C8: loading yields a ready engine only when the three artifacts are
\* mutually consistent: the matrix has as many rows as there are chunks and
\* as many columns as the vocabulary has terms.
C8_ReadyOnlyIfConsistent ==
    engine # <<>> => EngineConsistent(engine[1])

\* C9: after a build that succeeded, loading its artifacts gives the build's
\* chunk list in the build's order, the build's term-to-column mapping, and
\* a matrix whose row i is the weight vector of chunk i of the loaded list.
C9_BuildLoadRoundTrip ==
    (bPc = "idle" /\ bStatus = "success") =>
        LET r == LoadIndex(files)
            e == r.engine[1]
        IN  /\ r.raised = ""
            /\ Len(e.documents) = Len(bChunks)
            /\ \A i \in 1..Len(bChunks) :
                /\ e.documents[i].text = bChunks[i].text
                /\ e.documents[i].source_file = bChunks[i].source
                /\ e.documents[i].chunk_id
                        = StrId(bChunks[i].source \o "_", bChunks[i].chunk_id)
            /\ e.vocabulary = bVocab
            /\ e.tfidf_matrix
                    = Transform(e.vocabulary,
                                [i \in 1..Len(e.documents) |-> e.documents[i].text])

C9_Witness_LoadedAfterBuild ==
    /\ bPc = "idle"
    /\ bStatus = "success"
    /\ engine # <<>>
    /\ engine = LoadIndex(files).engine
    /\ Len(engine[1].documents) = 3
    /\ engine[1].documents[1].source_file # engine[1].documents[3].source_file
    /\ geOutcome = "engine"

====
